---- MODULE Spec2Model ----
(***************************************************************************)
(* Model of the streaming / batch statement pipeline of mstgnz/sqlmapper:  *)
(*   - BatchProcessor (ProcessBatch, processStatement, Stop)               *)
(*   - MySQLStreamParser.ParseStream / ParseStreamParallel                 *)
(*   - MySQLStreamParser.GenerateStream                                    *)
(***************************************************************************)
EXTENDS Integers, Sequences, FiniteSets, Bags, TLC

(* ------------------------------ bounds -------------------------------- *)
MaxWorkers == 2
MaxBatch == 1
MaxItems == 2
MaxCalls == 2
MaxStops == 2
MaxStmts == 2
MaxParWorkers == 2
MaxParStmts == 3
MaxTimeout == 2
MaxHandlers == 1
MaxTables == 2
MaxIdx == 1
MaxViews == 1
MaxFuncs == 2
MaxTriggers == 1
MaxFail == 3

Calls == 1..MaxCalls

(***************************************************************************)
(* BatchProcessor state.                                                   *)
(*   workers, queueCap : fields fixed by NewBatchProcessor                 *)
(*   queue, qClosed    : bp.queue (buffered channel) and its closed flag   *)
(*   workerPool        : number of tokens held in bp.workerPool            *)
(*   stopped           : bp.stopped                                        *)
(*   panic             : a run-time panic (send on / close of a closed     *)
(*                       channel) ends the program                         *)
(* Per ProcessBatch call c:                                                *)
(*   pc, nItems, idx   : position of the calling goroutine                 *)
(*   ctxErr            : state of the call's timeout context               *)
(*   errChan           : the call's errChan                                *)
(*   wg                : bag of the call's live worker goroutines          *)
(*   ret               : value returned to the caller                      *)
(*   memOptimizer      : bp.memOptimizer != nil                            *)
(*   batchSize, timeout, errorHandler : the fields the setters assign      *)
(*   buffers           : buffers obtained by GetBuffer and not yet put back*)
(*   deadline          : per call, the timeout its context was made with   *)
(* History (observations only):                                            *)
(*   inv, okRet, handlerErrs, ehArgs, afterStop, solo, seq2, stopCalls     *)
(*   cfgAt             : per call, the configuration when the call began   *)
(***************************************************************************)
VARIABLES workers, queueCap, queue, qClosed, workerPool, stopped, panic,
          pc, nItems, idx, ctxErr, errChan, wg, ret,
          inv, okRet, handlerErrs, ehArgs, afterStop, solo, seq2,
          stopCalls,
          memOptimizer, batchSize, timeout, errorHandler,
          buffers, deadline, cfgAt

cfgVars == <<memOptimizer, batchSize, timeout, errorHandler>>

bpVars == <<workers, queueCap, queue, qClosed, workerPool, stopped, panic,
            pc, nItems, idx, ctxErr, errChan, wg, ret,
            inv, okRet, handlerErrs, ehArgs, afterStop, solo, seq2,
            stopCalls, cfgVars, buffers, deadline, cfgAt>>

(***************************************************************************)
(* MySQLStreamParser state (ParseStream and ParseStreamParallel run on the *)
(* same input, the sequential engine first).                               *)
(*   input, workerCount : the script (statements as read by the splitter)  *)
(*                        and the workers argument                         *)
(*   seqPos, seqRet, cbSeq : ParseStream's position, return value and the  *)
(*                        objects passed to its callback                   *)
(*   parPc, parRet, cbPar : the caller of ParseStreamParallel              *)
(*   rd, prodDone       : the producer goroutine                           *)
(*   statements, stClosed, results, resClosed, errors : the channels       *)
(*   wk                 : the worker goroutines                            *)
(*   temp, schemaPtr    : each worker's tempSchema and p.mysql.schema      *)
(*   readFailAt         : the reader given to ParseStreamParallel: its     *)
(*                        readFailAt-th ReadStatement fails (0: none)      *)
(*   cbFailAt           : the callback given to ParseStreamParallel: its   *)
(*                        cbFailAt-th invocation returns an error (0: none)*)
(*   readErr            : the producer's read error: "none", "pending"     *)
(*                        (being sent to errors) or "sent"                 *)
(* History (observations only):                                            *)
(*   hist               : per input position, how often it was received,   *)
(*                        gave a result, gave an error; the position each  *)
(*                        worker holds; the workers whose parse failed     *)
(***************************************************************************)
VARIABLES input, workerCount, readFailAt, cbFailAt, seqPos, seqRet, cbSeq,
          parPc, parRet, cbPar, rd, prodDone,
          statements, stClosed, results, resClosed, errors,
          wk, temp, schemaPtr, readErr, hist

parseVars == <<input, workerCount, readFailAt, cbFailAt, seqPos, seqRet, cbSeq,
               parPc, parRet, cbPar, rd, prodDone,
               statements, stClosed, results, resClosed, errors,
               wk, temp, schemaPtr, readErr, hist>>

(***************************************************************************)
(* GenerateStream state.                                                   *)
(*   schema  : the *sqlmapper.Schema argument                              *)
(*   failAt  : the writer: its failAt-th Write returns an error (0: none)  *)
(*   sink    : what the writer has accepted so far                         *)
(*   gPc, gi, gj : the loop GenerateStream is in and its indexes           *)
(*   gRet    : the value returned                                          *)
(*   writes  : the number of calls of writer.Write made so far             *)
(***************************************************************************)
VARIABLES schema, failAt, sink, gPc, gi, gj, gRet, writes

genVars == <<schema, failAt, sink, gPc, gi, gj, gRet, writes>>

vars == <<bpVars, parseVars, genVars>>

(* ------------------------------ values -------------------------------- *)
Item(c, i) == [call |-> c, i |-> i]
NoItem == Item(0, 0)

Err(k, it) == [kind |-> k, item |-> it]
NoErr == Err("none", NoItem)
NilErr == Err("nil", NoItem)
ErrBatchProcessorStopped == Err("stopped", NoItem)
DeadlineExceeded == Err("deadline", NoItem)
Canceled == Err("canceled", NoItem)
HandlerErr(it) == Err("handler", it)

NoPanic == [kind |-> "none", by |-> 0]
Panic(k, who) == [kind |-> k, by |-> who]

Worker(p, it, e) == [pc |-> p, stmt |-> it, err |-> e]
IdleWorker == Worker("select", NoItem, NoErr)

Repl(B, old, new) == (B (-) SetToBag({old})) (+) SetToBag({new})
Remove(B, old) == B (-) SetToBag({old})

(* ------------------------- NewBatchProcessor -------------------------- *)
NoHandler == 0

NewBatchProcessor(w, b, m) ==
    /\ workers = w
    /\ batchSize = b
    /\ queueCap = b
    /\ timeout = 1
    /\ memOptimizer = m
    /\ errorHandler = NoHandler
    /\ buffers = 0
    /\ queue = <<>>
    /\ qClosed = FALSE
    /\ workerPool = 0
    /\ stopped = FALSE

BatchInit(W, B, M) ==
    /\ \E w \in W, b \in B, m \in M : NewBatchProcessor(w, b, m)
    /\ deadline = [c \in Calls |-> 0]
    /\ cfgAt = [c \in Calls |-> [timeout |-> 0, batchSize |-> 0, errorHandler |-> NoHandler]]
    /\ panic = NoPanic
    /\ pc = [c \in Calls |-> "idle"]
    /\ nItems = [c \in Calls |-> 0]
    /\ idx = [c \in Calls |-> 1]
    /\ ctxErr = [c \in Calls |-> NoErr]
    /\ errChan = [c \in Calls |-> <<>>]
    /\ wg = [c \in Calls |-> EmptyBag]
    /\ ret = [c \in Calls |-> NoErr]
    /\ inv = EmptyBag
    /\ okRet = {}
    /\ handlerErrs = {}
    /\ ehArgs = {}
    /\ afterStop = [c \in Calls |-> FALSE]
    /\ solo = [c \in Calls |-> FALSE]
    /\ seq2 = [c \in Calls |-> FALSE]
    /\ stopCalls = 0

Running == panic = NoPanic

(* -------------------------------- Stop -------------------------------- *)
isStopped_Never == FALSE

isStopped == stopped

(* close(bp.queue): closing a closed channel panics *)
CloseQueue(who) ==
    IF qClosed
    THEN /\ panic' = Panic("close", who)
         /\ UNCHANGED qClosed
    ELSE /\ qClosed' = TRUE
         /\ UNCHANGED panic

StopMustClose_Always == TRUE

(* if !bp.stopped { ... } *)
StopMustClose == ~stopped

Stop ==
    /\ Running
    /\ UNCHANGED <<parseVars, genVars, cfgVars>>
    /\ stopCalls < MaxStops
    /\ stopCalls' = stopCalls + 1
    /\ IF StopMustClose
       THEN /\ stopped' = TRUE
            /\ CloseQueue(-1)
       ELSE UNCHANGED <<stopped, qClosed, panic>>
    /\ UNCHANGED <<buffers, deadline, cfgAt, workers, queueCap, queue, workerPool,
                   pc, nItems, idx, ctxErr, errChan, wg, ret,
                   inv, okRet, handlerErrs, ehArgs, afterStop, solo, seq2>>

(* ---------------------------- ProcessBatch ---------------------------- *)
Active(c) == pc[c] \in {"enqueue", "wait"}

(* return from ProcessBatch; the deferred cancel() releases the context *)
Return(c, e) ==
    /\ pc' = [pc EXCEPT ![c] = "done"]
    /\ ret' = [ret EXCEPT ![c] = e]
    /\ ctxErr' = [ctxErr EXCEPT ![c] = IF @ = NoErr THEN Canceled ELSE @]

(* if bp.isStopped() { return ErrBatchProcessorStopped }                   *)
(* ctx, cancel := context.WithTimeout(ctx, bp.timeout)                     *)
(* errChan := make(chan error, bp.workers)                                 *)
(* for i := 0; i < bp.workers; i++ { wg.Add(1); go func() {...}() }        *)
Begin(c, n) ==
    /\ Running
    /\ UNCHANGED <<parseVars, genVars, cfgVars>>
    /\ pc[c] = "idle"
    /\ \A d \in Calls : d < c => pc[d] # "idle"
    /\ nItems' = [nItems EXCEPT ![c] = n]
    /\ cfgAt' = [cfgAt EXCEPT ![c] = [timeout |-> timeout, batchSize |-> batchSize,
                                      errorHandler |-> errorHandler]]
    /\ afterStop' = [afterStop EXCEPT ![c] = stopped]
    /\ solo' = [d \in Calls |-> IF d = c THEN \A e \in Calls : pc[e] = "idle"
                                ELSE solo[d] /\ pc[d] = "done"]
    /\ seq2' = [seq2 EXCEPT ![c] =
                   /\ \A d \in Calls \ {c} : pc[d] \in {"idle", "done"}
                   /\ \E d \in Calls : pc[d] = "done" /\ ret[d] # ErrBatchProcessorStopped]
    /\ IF isStopped
       THEN /\ pc' = [pc EXCEPT ![c] = "done"]
            /\ ret' = [ret EXCEPT ![c] = ErrBatchProcessorStopped]
            /\ UNCHANGED <<wg, deadline>>
       ELSE /\ pc' = [pc EXCEPT ![c] = "enqueue"]
            /\ deadline' = [deadline EXCEPT ![c] = timeout]
            /\ wg' = [wg EXCEPT ![c] = (IdleWorker :> workers)]
            /\ UNCHANGED ret
    /\ UNCHANGED <<buffers, workers, queueCap, queue, qClosed, workerPool, stopped, panic,
                   idx, ctxErr, errChan,
                   inv, okRet, handlerErrs, ehArgs, stopCalls>>

(* the timer of context.WithTimeout(ctx, bp.timeout) fires *)
DeadlineElapse(c) ==
    /\ Running
    /\ UNCHANGED <<parseVars, genVars, cfgVars>>
    /\ Active(c)
    /\ ctxErr[c] = NoErr
    /\ ctxErr' = [ctxErr EXCEPT ![c] = DeadlineExceeded]
    /\ UNCHANGED <<buffers, deadline, cfgAt, workers, queueCap, queue, qClosed, workerPool, stopped, panic,
                   pc, nItems, idx, errChan, wg, ret,
                   inv, okRet, handlerErrs, ehArgs, afterStop, solo, seq2,
                   stopCalls>>

InEnqueue(c) == pc[c] = "enqueue" /\ idx[c] <= nItems[c]

(* case <-ctx.Done(): close(bp.queue); return ctx.Err() *)
EnqCtxDone(c) ==
    /\ Running
    /\ UNCHANGED <<parseVars, genVars, cfgVars>>
    /\ InEnqueue(c)
    /\ ctxErr[c] # NoErr
    /\ CloseQueue(c)
    /\ IF qClosed THEN UNCHANGED <<pc, ret, ctxErr>> ELSE Return(c, ctxErr[c])
    /\ UNCHANGED <<buffers, deadline, cfgAt, workers, queueCap, queue, workerPool, stopped,
                   nItems, idx, errChan, wg,
                   inv, okRet, handlerErrs, ehArgs, afterStop, solo, seq2,
                   stopCalls>>

(* case bp.queue <- stmt: a send on a closed channel panics *)
EnqSend(c) ==
    /\ Running
    /\ UNCHANGED <<parseVars, genVars, cfgVars>>
    /\ InEnqueue(c)
    /\ IF qClosed
       THEN /\ panic' = Panic("send", c)
            /\ UNCHANGED <<queue, idx>>
       ELSE /\ Len(queue) < queueCap
            /\ queue' = Append(queue, Item(c, idx[c]))
            /\ idx' = [idx EXCEPT ![c] = @ + 1]
            /\ UNCHANGED panic
    /\ UNCHANGED <<buffers, deadline, cfgAt, workers, queueCap, qClosed, workerPool, stopped,
                   pc, nItems, ctxErr, errChan, wg, ret,
                   inv, okRet, handlerErrs, ehArgs, afterStop, solo, seq2,
                   stopCalls>>

(* case err := <-errChan: close(bp.queue); return err *)
EnqErr(c) ==
    /\ Running
    /\ UNCHANGED <<parseVars, genVars, cfgVars>>
    /\ InEnqueue(c)
    /\ errChan[c] # <<>>
    /\ errChan' = [errChan EXCEPT ![c] = Tail(@)]
    /\ CloseQueue(c)
    /\ IF qClosed THEN UNCHANGED <<pc, ret, ctxErr>> ELSE Return(c, Head(errChan[c]))
    /\ UNCHANGED <<buffers, deadline, cfgAt, workers, queueCap, queue, workerPool, stopped,
                   nItems, idx, wg,
                   inv, okRet, handlerErrs, ehArgs, afterStop, solo, seq2,
                   stopCalls>>

(* after the loop: close(bp.queue), then wg.Wait() *)
EnqDone(c) ==
    /\ Running
    /\ UNCHANGED <<parseVars, genVars, cfgVars>>
    /\ pc[c] = "enqueue"
    /\ idx[c] > nItems[c]
    /\ CloseQueue(c)
    /\ IF qClosed THEN UNCHANGED pc ELSE pc' = [pc EXCEPT ![c] = "wait"]
    /\ UNCHANGED <<buffers, deadline, cfgAt, workers, queueCap, queue, workerPool, stopped,
                   nItems, idx, ctxErr, errChan, wg, ret,
                   inv, okRet, handlerErrs, ehArgs, afterStop, solo, seq2,
                   stopCalls>>

WaitReturns_NoWait(c) == TRUE

(* wg.Wait() returns once every worker of the call has exited *)
WaitReturns(c) == wg[c] = EmptyBag

(* select { case err := <-errChan: return err
            case <-ctx.Done(): return ctx.Err()
            default: return nil } *)
FinalSelect(c) ==
    /\ Running
    /\ UNCHANGED <<parseVars, genVars, cfgVars>>
    /\ pc[c] = "wait"
    /\ WaitReturns(c)
    /\ \/ /\ errChan[c] # <<>>
          /\ errChan' = [errChan EXCEPT ![c] = Tail(@)]
          /\ Return(c, Head(errChan[c]))
       \/ /\ ctxErr[c] # NoErr
          /\ Return(c, ctxErr[c])
          /\ UNCHANGED errChan
       \/ /\ errChan[c] = <<>>
          /\ ctxErr[c] = NoErr
          /\ Return(c, NilErr)
          /\ UNCHANGED errChan
    /\ UNCHANGED <<buffers, deadline, cfgAt, workers, queueCap, queue, qClosed, workerPool, stopped, panic,
                   nItems, idx, wg,
                   inv, okRet, handlerErrs, ehArgs, afterStop, solo, seq2,
                   stopCalls>>

(* ------------------------- worker goroutines -------------------------- *)
Live(c, p) == {w \in BagToSet(wg[c]) : w.pc = p}

(* case <-ctx.Done(): return *)
WorkerCtxDone(c) ==
    /\ Running
    /\ UNCHANGED <<parseVars, genVars, cfgVars>>
    /\ ctxErr[c] # NoErr
    /\ \E w \in Live(c, "select") : wg' = [wg EXCEPT ![c] = Remove(@, w)]
    /\ UNCHANGED <<buffers, deadline, cfgAt, workers, queueCap, queue, qClosed, workerPool, stopped, panic,
                   pc, nItems, idx, ctxErr, errChan, ret,
                   inv, okRet, handlerErrs, ehArgs, afterStop, solo, seq2,
                   stopCalls>>

(* case stmt, ok := <-bp.queue with ok: processStatement(ctx, stmt, handler) *)
WorkerRecv(c) ==
    /\ Running
    /\ UNCHANGED <<parseVars, genVars, cfgVars>>
    /\ queue # <<>>
    /\ \E w \in Live(c, "select") :
          wg' = [wg EXCEPT ![c] = Repl(@, w, Worker("acquire", Head(queue), NoErr))]
    /\ queue' = Tail(queue)
    /\ UNCHANGED <<buffers, deadline, cfgAt, workers, queueCap, qClosed, workerPool, stopped, panic,
                   pc, nItems, idx, ctxErr, errChan, ret,
                   inv, okRet, handlerErrs, ehArgs, afterStop, solo, seq2,
                   stopCalls>>

(* case stmt, ok := <-bp.queue with !ok: return *)
WorkerQueueClosed(c) ==
    /\ Running
    /\ UNCHANGED <<parseVars, genVars, cfgVars>>
    /\ queue = <<>>
    /\ qClosed
    /\ \E w \in Live(c, "select") : wg' = [wg EXCEPT ![c] = Remove(@, w)]
    /\ UNCHANGED <<buffers, deadline, cfgAt, workers, queueCap, queue, qClosed, workerPool, stopped, panic,
                   pc, nItems, idx, ctxErr, errChan, ret,
                   inv, okRet, handlerErrs, ehArgs, afterStop, solo, seq2,
                   stopCalls>>

PoolHasSlot_NoLimit == TRUE

(* MemoryOptimizer.GetBuffer / PutBuffer: one more, one fewer buffer out *)
GetBuffer(n) == n + 1
PutBuffer(n) == n - 1

RunsDeferred_OnSuccessOnly(failed) == ~failed

(* defer func() { <-bp.workerPool }(); defer bp.memOptimizer.PutBuffer(buf): *)
(* deferred calls run however handler(stmt) returns                         *)
RunsDeferred(failed) == TRUE

Release(failed) ==
    IF RunsDeferred(failed)
    THEN /\ workerPool' = workerPool - 1
         /\ buffers' = IF memOptimizer THEN PutBuffer(buffers) ELSE buffers
    ELSE UNCHANGED <<workerPool, buffers>>

(* processStatement: case bp.workerPool <- struct{}{} can proceed *)
PoolHasSlot == workerPool < workers

(* processStatement: slot acquired, buffer taken, handler(stmt) starts *)
WorkerAcquire(c) ==
    /\ Running
    /\ UNCHANGED <<parseVars, genVars, cfgVars>>
    /\ PoolHasSlot
    /\ \E w \in Live(c, "acquire") :
          /\ wg' = [wg EXCEPT ![c] = Repl(@, w, Worker("handler", w.stmt, NoErr))]
          /\ inv' = inv (+) SetToBag({[by |-> c, item |-> w.stmt]})
    /\ workerPool' = workerPool + 1
    /\ buffers' = IF memOptimizer THEN GetBuffer(buffers) ELSE buffers
    /\ UNCHANGED <<deadline, cfgAt, workers, queueCap, queue, qClosed, stopped, panic,
                   pc, nItems, idx, ctxErr, errChan, ret,
                   okRet, handlerErrs, ehArgs, afterStop, solo, seq2,
                   stopCalls>>

(* if err != nil { select { case errChan <- err: default: bp.errorHandler(err) }; return } *)
ErrChanHasRoom(c) == Len(errChan[c]) < workers

Report(c, e) ==
    IF ErrChanHasRoom(c)
    THEN /\ errChan' = [errChan EXCEPT ![c] = Append(@, e)]
         /\ UNCHANGED ehArgs
    ELSE /\ ehArgs' = ehArgs \cup {[by |-> c, err |-> e, to |-> errorHandler]}
         /\ UNCHANGED errChan

(* processStatement: case <-ctx.Done(): return ctx.Err(); the worker reports it and exits *)
WorkerAcquireCtx(c) ==
    /\ Running
    /\ UNCHANGED <<parseVars, genVars, cfgVars>>
    /\ ctxErr[c] # NoErr
    /\ \E w \in Live(c, "acquire") : wg' = [wg EXCEPT ![c] = Remove(@, w)]
    /\ Report(c, ctxErr[c])
    /\ UNCHANGED <<buffers, deadline, cfgAt, workers, queueCap, queue, qClosed, workerPool, stopped, panic,
                   pc, nItems, idx, ctxErr, ret,
                   inv, okRet, handlerErrs, afterStop, solo, seq2,
                   stopCalls>>

(* handler(stmt) returns nil; the deferred PutBuffer and <-bp.workerPool run; next iteration *)
HandlerReturnNil(c) ==
    /\ Running
    /\ UNCHANGED <<parseVars, genVars, cfgVars>>
    /\ \E w \in Live(c, "handler") :
          /\ wg' = [wg EXCEPT ![c] = Repl(@, w, IdleWorker)]
          /\ okRet' = okRet \cup {w.stmt}
    /\ Release(FALSE)
    /\ UNCHANGED <<deadline, cfgAt, workers, queueCap, queue, qClosed, stopped, panic,
                   pc, nItems, idx, ctxErr, errChan, ret,
                   inv, handlerErrs, ehArgs, afterStop, solo, seq2,
                   stopCalls>>

(* handler(stmt) returns an error; deferred releases run; the worker reports it and exits *)
HandlerReturnErr(c) ==
    /\ Running
    /\ UNCHANGED <<parseVars, genVars, cfgVars>>
    /\ \E w \in Live(c, "handler") :
          /\ wg' = [wg EXCEPT ![c] = Remove(@, w)]
          /\ handlerErrs' = handlerErrs \cup {[by |-> c, err |-> HandlerErr(w.stmt)]}
          /\ Report(c, HandlerErr(w.stmt))
    /\ Release(TRUE)
    /\ UNCHANGED <<deadline, cfgAt, workers, queueCap, queue, qClosed, stopped, panic,
                   pc, nItems, idx, ctxErr, ret,
                   inv, okRet, afterStop, solo, seq2,
                   stopCalls>>

(* ------------------------------ setters ------------------------------- *)
(* bp.mu.Lock(); bp.timeout = timeout; bp.mu.Unlock() *)
SetTimeout(d) ==
    /\ Running
    /\ timeout' = d
    /\ UNCHANGED <<memOptimizer, batchSize, errorHandler, buffers, deadline, cfgAt>>
    /\ UNCHANGED <<workers, queueCap, queue, qClosed, workerPool, stopped, panic,
                   pc, nItems, idx, ctxErr, errChan, wg, ret,
                   inv, okRet, handlerErrs, ehArgs, afterStop, solo, seq2,
                   stopCalls>>
    /\ UNCHANGED <<parseVars, genVars>>

(* bp.mu.Lock(); bp.batchSize = size; bp.mu.Unlock() *)
SetBatchSize(size) ==
    /\ Running
    /\ batchSize' = size
    /\ UNCHANGED <<memOptimizer, timeout, errorHandler, buffers, deadline, cfgAt>>
    /\ UNCHANGED <<workers, queueCap, queue, qClosed, workerPool, stopped, panic,
                   pc, nItems, idx, ctxErr, errChan, wg, ret,
                   inv, okRet, handlerErrs, ehArgs, afterStop, solo, seq2,
                   stopCalls>>
    /\ UNCHANGED <<parseVars, genVars>>

(* bp.mu.Lock(); bp.errorHandler = handler; bp.mu.Unlock() *)
SetErrorHandler(handler) ==
    /\ Running
    /\ errorHandler' = handler
    /\ UNCHANGED <<memOptimizer, batchSize, timeout, buffers, deadline, cfgAt>>
    /\ UNCHANGED <<workers, queueCap, queue, qClosed, workerPool, stopped, panic,
                   pc, nItems, idx, ctxErr, errChan, wg, ret,
                   inv, okRet, handlerErrs, ehArgs, afterStop, solo, seq2,
                   stopCalls>>
    /\ UNCHANGED <<parseVars, genVars>>

(* ======================= BatchProcessor properties ===================== *)
RECURSIVE SumOver(_, _)
SumOver(S, f) ==
    IF S = {} THEN 0
    ELSE LET x == CHOOSE y \in S : TRUE IN f[x] + SumOver(S \ {x}, f)

(* number of workers of call c that are inside handler(stmt) *)
InHandler(c) == SumOver(Live(c, "handler"), wg[c])
HandlersRunning == SumOver(Calls, [c \in Calls |-> InHandler(c)])

(* handler invocations started on an item, by any worker *)
InvCount(it) == SumOver({r \in BagToSet(inv) : r.item = it}, inv)

(* C1: at every moment the number of handler invocations that have started *)
(* and not yet returned, over all ProcessBatch calls of the processor, is   *)
(* at most Workers.                                                         *)
C1_BoundedConcurrency == HandlersRunning <= workers

(* two overlapping calls, the limiter full and a further worker held back *)
C1_Witness ==
    /\ workers >= 2
    /\ HandlersRunning = workers
    /\ \A c \in {1, 2} : InHandler(c) >= 1
    /\ \E c \in Calls : Live(c, "acquire") # {}

(* C2: a call that has returned the deadline-exceeded error has left no     *)
(* worker of its own behind inside a handler invocation.                    *)
C2_TimeoutNoLeak ==
    \A c \in Calls :
        (pc[c] = "done" /\ ret[c] = DeadlineExceeded) => InHandler(c) = 0

(* C3: a ProcessBatch call that begins after Stop() has returned returns    *)
(* ErrBatchProcessorStopped, starts no worker, enqueues no item and makes   *)
(* no handler invocation.                                                   *)
C3_StoppedRejects ==
    \A c \in Calls :
        afterStop[c] =>
            /\ pc[c] = "done"
            /\ ret[c] = ErrBatchProcessorStopped
            /\ wg[c] = EmptyBag
            /\ idx[c] = 1
            /\ \A k \in 1..Len(queue) : queue[k].call # c
            /\ \A r \in BagToSet(inv) : r.by # c /\ r.item.call # c

C3_Witness ==
    \E c \in Calls : afterStop[c] /\ pc[c] = "done" /\ nItems[c] > 0 /\ Running

(* C6: a single ProcessBatch call on a fresh processor that returns nil has *)
(* invoked the handler exactly once on every item, and every invocation     *)
(* returned nil.                                                            *)
C6_AllOrError ==
    \A c \in Calls :
        (solo[c] /\ pc[c] = "done" /\ ret[c] = NilErr) =>
            /\ \A i \in 1..nItems[c] :
                  InvCount(Item(c, i)) = 1 /\ Item(c, i) \in okRet
            /\ \A h \in handlerErrs : h.by # c

C6_Witness ==
    \E c \in Calls :
        solo[c] /\ pc[c] = "done" /\ ret[c] = NilErr /\ nItems[c] >= 2

(* C7: once a call in which two or more handler invocations returned errors *)
(* has returned and its workers have exited, every error returned by one of *)
(* its handler invocations is either the value the call returned or an      *)
(* argument of an ErrorHandler call.                                        *)
C7_NoErrorDropped ==
    \A c \in Calls :
        (/\ pc[c] = "done"
         /\ wg[c] = EmptyBag
         /\ Cardinality({h \in handlerErrs : h.by = c}) >= 2) =>
            \A h \in handlerErrs :
                h.by = c => (h.err = ret[c] \/ \E a \in ehArgs : a.by = c /\ a.err = h.err)

(* C8: stopped never goes back to false; the first Stop() sets it and       *)
(* closes the queue; a Stop() on a stopped processor changes nothing (no    *)
(* second close).                                                           *)
StopStep == stopCalls' # stopCalls

C8_StopIdempotent ==
    [][ /\ stopped => stopped'
        /\ (StopStep /\ ~stopped) => (stopped' /\ qClosed')
        /\ (StopStep /\ ~stopped /\ ~qClosed) => Running'
        /\ (StopStep /\ stopped) =>
              UNCHANGED <<workers, queueCap, queue, qClosed, workerPool, stopped,
                          panic, pc, nItems, idx, ctxErr, errChan, wg, ret>> ]_vars

C8_Witness == stopCalls >= 2 /\ stopped /\ qClosed /\ Running

(* C9: on a processor that has not been stopped, a ProcessBatch call made   *)
(* after an earlier call has returned does not send on or close a closed    *)
(* queue, and with a non-failing handler and no timeout returns nil having  *)
(* handled each of its items once.                                          *)
C9_Reusable ==
    \A c \in Calls :
        (seq2[c] /\ ~stopped) =>
            /\ panic.by # c
            /\ (/\ pc[c] = "done"
                /\ ctxErr[c] # DeadlineExceeded
                /\ \A h \in handlerErrs : h.by # c)
               => /\ ret[c] = NilErr
                  /\ \A i \in 1..nItems[c] : InvCount(Item(c, i)) = 1


(* C13: with MemOptimizer configured, the buffers not yet put back and the  *)
(* limiter slots held are exactly those of the handler invocations in       *)
(* progress, whether earlier invocations returned nil or an error; so both  *)
(* are zero whenever no handler invocation is in progress.                  *)
C13_ReleaseOnEveryPath ==
    memOptimizer =>
        /\ buffers = HandlersRunning
        /\ workerPool = HandlersRunning
        /\ HandlersRunning = 0 => (buffers = 0 /\ workerPool = 0)

C13_Witness ==
    /\ memOptimizer
    /\ HandlersRunning = 0
    /\ buffers = 0
    /\ workerPool = 0
    /\ okRet # {}
    /\ handlerErrs # {}

(* C14: when Stop() is interleaved with one ProcessBatch call, the queue is *)
(* never closed a second time and no item is sent to it after it was        *)
(* closed (either one panics).                                              *)
C14_SingleClosure ==
    (\A c \in Calls : c > 1 => pc[c] = "idle") => panic = NoPanic

(* handler invocations started by the workers of call c *)
InvBy(c) == SumOver({r \in BagToSet(inv) : r.by = c}, inv)

(* C17: once a ProcessBatch call has returned an error (a handler error or  *)
(* the context error, from its enqueue loop), no handler invocation of that *)
(* call starts any more.                                                    *)
C17_NoWorkAfterReturn ==
    [][ \A c \in Calls :
          (pc[c] = "done" /\ ret[c] \notin {NilErr, ErrBatchProcessorStopped})
              => InvBy(c)' = InvBy(c) ]_vars

(* C20: a ProcessBatch call uses the configuration in force when it began:  *)
(* its deadline is the timeout set before it began, the capacity of its     *)
(* queue is the batch size set before it began, errors that do not fit in   *)
(* its error channel go to the handler set before it began; a setter called *)
(* while the call is in flight changes none of them for that call.          *)
C20_SettersApply ==
    \A c \in Calls :
        Active(c) =>
            /\ deadline[c] = cfgAt[c].timeout
            /\ queueCap = cfgAt[c].batchSize
            /\ \A a \in ehArgs : a.by = c => a.to = cfgAt[c].errorHandler

(* ====================== MySQLStreamParser: parsing ===================== *)
WS == " "

(* the statements a script is made of, as the splitter returns them *)
StmtTable == <<WS, "create", "table", "t">>
StmtView == <<"CREATE", "VIEW", "v">>
StmtFunction == <<"CREATE", "FUNCTION", "f">>
StmtProcedure == <<"CREATE", "PROCEDURE", "p">>
StmtTrigger == <<"CREATE", "TRIGGER", "g", WS>>
StmtSelect == <<"SELECT", "1">>
StmtBlank == <<WS>>
StmtNoName == <<"CREATE", "TABLE">>

Statements == {StmtTable, StmtView, StmtFunction, StmtProcedure, StmtTrigger,
               StmtSelect, StmtBlank, StmtNoName}

RECURSIVE SeqsUpTo(_, _)
SeqsUpTo(S, n) ==
    IF n = 0 THEN {<<>>}
    ELSE LET shorter == SeqsUpTo(S, n - 1)
         IN shorter \cup {Append(q, x) : q \in {r \in shorter : Len(r) = n - 1}, x \in S}

(* sqlmapper.StreamReader.ReadStatement: the k-th statement, or io.EOF *)
AtEOF(k) == k > Len(input)
ReadStatement(k) == input[k]

(* strings.TrimSpace *)
RECURSIVE TrimLeft(_)
TrimLeft(st) == IF st # <<>> /\ Head(st) = WS THEN TrimLeft(Tail(st)) ELSE st
RECURSIVE TrimRight(_)
TrimRight(st) ==
    IF st # <<>> /\ st[Len(st)] = WS THEN TrimRight(SubSeq(st, 1, Len(st) - 1)) ELSE st
TrimSpace(st) == TrimRight(TrimLeft(st))

(* strings.ToUpper *)
UpperWord(w) ==
    CASE w = "create" -> "CREATE"
      [] w = "table" -> "TABLE"
      [] OTHER -> w
ToUpper(st) == [k \in 1..Len(st) |-> UpperWord(st[k])]

(* strings.HasPrefix *)
HasPrefix(st, prefix) ==
    Len(st) >= Len(prefix) /\ SubSeq(st, 1, Len(prefix)) = prefix

NoKind == "none"

SeqKind_NoTrigger(st) ==
    LET u == ToUpper(st)
    IN IF HasPrefix(u, <<"CREATE", "TABLE">>) THEN "TableObject"
       ELSE IF HasPrefix(u, <<"CREATE", "VIEW">>) THEN "ViewObject"
       ELSE IF HasPrefix(u, <<"CREATE", "FUNCTION">>) THEN "FunctionObject"
       ELSE IF HasPrefix(u, <<"CREATE", "PROCEDURE">>) THEN "ProcedureObject"
       ELSE NoKind

(* ParseStream: the chain of if strings.HasPrefix(strings.ToUpper(statement), ...) *)
SeqKind(st) ==
    LET u == ToUpper(st)
    IN IF HasPrefix(u, <<"CREATE", "TABLE">>) THEN "TableObject"
       ELSE IF HasPrefix(u, <<"CREATE", "VIEW">>) THEN "ViewObject"
       ELSE IF HasPrefix(u, <<"CREATE", "FUNCTION">>) THEN "FunctionObject"
       ELSE IF HasPrefix(u, <<"CREATE", "PROCEDURE">>) THEN "ProcedureObject"
       ELSE IF HasPrefix(u, <<"CREATE", "TRIGGER">>) THEN "TriggerObject"
       ELSE NoKind

(* parseStatement: the switch over strings.HasPrefix(upperStatement, ...) *)
ParKind(st) ==
    LET u == ToUpper(st)
    IN CASE HasPrefix(u, <<"CREATE", "TABLE">>) -> "TableObject"
         [] HasPrefix(u, <<"CREATE", "VIEW">>) -> "ViewObject"
         [] HasPrefix(u, <<"CREATE", "FUNCTION">>) -> "FunctionObject"
         [] HasPrefix(u, <<"CREATE", "PROCEDURE">>) -> "ProcedureObject"
         [] OTHER -> NoKind

(* sqlmapper.Schema and the collection each parse helper reads *)
EmptySchema == [Tables |-> <<>>, Views |-> <<>>, Functions |-> <<>>, Triggers |-> <<>>]

Collection(kind) ==
    CASE kind = "TableObject" -> "Tables"
      [] kind = "ViewObject" -> "Views"
      [] kind = "FunctionObject" -> "Functions"
      [] kind = "ProcedureObject" -> "Functions"
      [] kind = "TriggerObject" -> "Triggers"

(* the dialect parsers p.mysql.parseTables / parseViews / parseFunctions /  *)
(* parseTriggers: store the entity extracted from the statement in the      *)
(* schema p.mysql.schema points to; nothing is stored when none is found    *)
Entity(st, kind) ==
    IF Collection(kind) = "Functions"
    THEN [Name |-> st[3], IsProc |-> (ToUpper(st)[2] = "PROCEDURE")]
    ELSE [Name |-> st[3]]

DialectParse(sch, st, kind) ==
    IF Len(st) >= 3
    THEN [sch EXCEPT ![Collection(kind)] = Append(@, Entity(st, kind))]
    ELSE sch

PNone == [err |-> "none", what |-> NoKind]
PNil == [err |-> "nil", what |-> NoKind]
NotFound(kind) == [err |-> "not found", what |-> kind]

SchemaObject(kind, data) == [Type |-> kind, Data |-> data]

(* parseTableStatement ... parseTriggerStatement, run by one thread alone *)
ParseAlone(st, kind) ==
    LET tempSchema == DialectParse(EmptySchema, st, kind)
        found == tempSchema[Collection(kind)]
    IN IF Len(found) = 0
       THEN [err |-> NotFound(kind), obj |-> SchemaObject(NoKind, <<>>)]
       ELSE [err |-> PNil, obj |-> SchemaObject(kind, found[1])]

ReadError == [err |-> "error reading statement", what |-> NoKind]
CallbackError == [err |-> "callback error", what |-> NoKind]

ParseInit(scripts, counts, readFails, cbFails) ==
    /\ input \in scripts
    /\ workerCount \in counts
    /\ readFailAt \in readFails
    /\ cbFailAt \in cbFails
    /\ readErr = "none"
    /\ hist = [inChan |-> <<>>,
               cur |-> [w \in 1..workerCount |-> 0],
               recv |-> [k \in 1..Len(input) |-> 0],
               res |-> [k \in 1..Len(input) |-> 0],
               err |-> [k \in 1..Len(input) |-> 0],
               failed |-> {}]
    /\ seqPos = 1
    /\ seqRet = PNone
    /\ cbSeq = <<>>
    /\ parPc = "idle"
    /\ parRet = PNone
    /\ cbPar = EmptyBag
    /\ rd = 1
    /\ prodDone = FALSE
    /\ statements = <<>>
    /\ stClosed = FALSE
    /\ results = <<>>
    /\ resClosed = FALSE
    /\ errors = <<>>
    /\ wk = <<>>
    /\ temp = <<>>
    /\ schemaPtr = 0

(* ----------------------------- ParseStream ---------------------------- *)
(* if err == io.EOF { break } ... return nil *)
SeqEOF ==
    /\ seqRet = PNone
    /\ AtEOF(seqPos)
    /\ seqRet' = PNil
    /\ UNCHANGED <<input, workerCount, readFailAt, cbFailAt, seqPos, cbSeq,
                   parPc, parRet, cbPar, rd, prodDone,
                   statements, stClosed, results, resClosed, errors,
                   wk, temp, schemaPtr, readErr, hist>>
    /\ UNCHANGED <<bpVars, genVars>>

(* one iteration of the loop: read, trim, skip blank, classify, parse, callback *)
SeqIter ==
    /\ seqRet = PNone
    /\ ~AtEOF(seqPos)
    /\ LET statement == TrimSpace(ReadStatement(seqPos))
           kind == SeqKind(statement)
       IN IF statement = <<>> \/ kind = NoKind
          THEN /\ seqPos' = seqPos + 1
               /\ UNCHANGED <<seqRet, cbSeq>>
          ELSE LET r == ParseAlone(statement, kind)
               IN IF r.err # PNil
                  THEN /\ seqRet' = r.err
                       /\ UNCHANGED <<seqPos, cbSeq>>
                  ELSE /\ cbSeq' = Append(cbSeq, r.obj)
                       /\ seqPos' = seqPos + 1
                       /\ UNCHANGED seqRet
    /\ UNCHANGED <<input, workerCount, readFailAt, cbFailAt,
                   parPc, parRet, cbPar, rd, prodDone,
                   statements, stClosed, results, resClosed, errors,
                   wk, temp, schemaPtr, readErr, hist>>
    /\ UNCHANGED <<bpVars, genVars>>

(* ------------------------- ParseStreamParallel ------------------------ *)
PWorkers == 1..workerCount
PWorker(p, st, k, o) == [pc |-> p, stmt |-> st, kind |-> k, out |-> o]
PIdle == PWorker("recv", <<>>, NoKind, PNone)

(* make the channels, start the workers, the closer and the producer *)
ParStart ==
    /\ seqRet # PNone
    /\ parPc = "idle"
    /\ parPc' = "drain"
    /\ wk' = [w \in PWorkers |-> PIdle]
    /\ temp' = [w \in PWorkers |-> EmptySchema]
    /\ UNCHANGED <<input, workerCount, readFailAt, cbFailAt, seqPos, seqRet, cbSeq,
                   parRet, cbPar, rd, prodDone,
                   statements, stClosed, results, resClosed, errors, schemaPtr,
                   readErr, hist>>
    /\ UNCHANGED <<bpVars, genVars>>

Started == parPc # "idle"

(* streamReader.ReadStatement returns an error other than io.EOF *)
ReadFails(k) == readFailAt = k

(* the producer is in its read loop *)
Reading == Started /\ ~prodDone /\ readErr = "none"

(* producer: statement == "" -> continue *)
ProducerSkip ==
    /\ Reading
    /\ ~ReadFails(rd)
    /\ ~AtEOF(rd)
    /\ TrimSpace(ReadStatement(rd)) = <<>>
    /\ rd' = rd + 1
    /\ UNCHANGED <<input, workerCount, readFailAt, cbFailAt, seqPos, seqRet, cbSeq,
                   parPc, parRet, cbPar, prodDone,
                   statements, stClosed, results, resClosed, errors,
                   wk, temp, schemaPtr, readErr, hist>>
    /\ UNCHANGED <<bpVars, genVars>>

(* producer: statements <- statement (blocks while the channel is full) *)
ProducerSend ==
    /\ Reading
    /\ ~ReadFails(rd)
    /\ ~AtEOF(rd)
    /\ TrimSpace(ReadStatement(rd)) # <<>>
    /\ Len(statements) < workerCount
    /\ statements' = Append(statements, TrimSpace(ReadStatement(rd)))
    /\ hist' = [hist EXCEPT !.inChan = Append(@, rd)]
    /\ rd' = rd + 1
    /\ UNCHANGED <<input, workerCount, readFailAt, cbFailAt, seqPos, seqRet, cbSeq,
                   parPc, parRet, cbPar, prodDone,
                   stClosed, results, resClosed, errors,
                   wk, temp, schemaPtr, readErr>>
    /\ UNCHANGED <<bpVars, genVars>>

(* producer: statement, err := streamReader.ReadStatement(); err != nil *)
ProducerReadFail ==
    /\ Reading
    /\ ReadFails(rd)
    /\ readErr' = "pending"
    /\ UNCHANGED <<input, workerCount, readFailAt, cbFailAt, seqPos, seqRet, cbSeq,
                   parPc, parRet, cbPar, rd, prodDone,
                   statements, stClosed, results, resClosed, errors,
                   wk, temp, schemaPtr, hist>>
    /\ UNCHANGED <<bpVars, genVars>>

(* producer: errors <- fmt.Errorf(...) (blocks while the channel is full); break *)
ProducerSendError ==
    /\ Started
    /\ readErr = "pending"
    /\ Len(errors) < workerCount
    /\ errors' = Append(errors, ReadError)
    /\ readErr' = "sent"
    /\ UNCHANGED <<input, workerCount, readFailAt, cbFailAt, seqPos, seqRet, cbSeq,
                   parPc, parRet, cbPar, rd, prodDone,
                   statements, stClosed, results, resClosed,
                   wk, temp, schemaPtr, hist>>
    /\ UNCHANGED <<bpVars, genVars>>

(* producer: after io.EOF or after the read error was sent: close(statements) *)
ProducerClose ==
    /\ Started
    /\ ~prodDone
    /\ IF readErr = "none" THEN AtEOF(rd) /\ ~ReadFails(rd) ELSE readErr = "sent"
    /\ stClosed' = TRUE
    /\ prodDone' = TRUE
    /\ UNCHANGED <<input, workerCount, readFailAt, cbFailAt, seqPos, seqRet, cbSeq,
                   parPc, parRet, cbPar, rd,
                   statements, results, resClosed, errors,
                   wk, temp, schemaPtr, readErr, hist>>
    /\ UNCHANGED <<bpVars, genVars>>

Receive_Peek(ch) == ch

(* a receive takes the value at the head out of the channel *)
Receive(ch) == Tail(ch)

(* worker: for statement := range statements; parseStatement classifies it; *)
(* a recognized statement enters its parse helper, which makes a fresh      *)
(* tempSchema and stores its address in p.mysql.schema                      *)
WorkerTake(w) ==
    /\ Started
    /\ wk[w].pc = "recv"
    /\ statements # <<>>
    /\ statements' = Receive(statements)
    /\ LET pos == Head(hist.inChan)
       IN hist' = [hist EXCEPT !.inChan = Receive(@),
                               !.recv[pos] = @ + 1,
                               !.cur[w] = pos]
    /\ LET statement == Head(statements)
           kind == ParKind(statement)
       IN IF kind = NoKind
          THEN UNCHANGED <<wk, temp, schemaPtr>>
          ELSE /\ wk' = [wk EXCEPT ![w] = PWorker("parse", statement, kind, PNone)]
               /\ temp' = [temp EXCEPT ![w] = EmptySchema]
               /\ schemaPtr' = w
    /\ UNCHANGED <<input, workerCount, readFailAt, cbFailAt, seqPos, seqRet, cbSeq,
                   parPc, parRet, cbPar, rd, prodDone,
                   stClosed, results, resClosed, errors, readErr>>
    /\ UNCHANGED <<bpVars, genVars>>

(* worker: the range loop ends when statements is closed and drained *)
WorkerEnd(w) ==
    /\ Started
    /\ wk[w].pc = "recv"
    /\ statements = <<>>
    /\ stClosed
    /\ wk' = [wk EXCEPT ![w].pc = "exit"]
    /\ UNCHANGED <<input, workerCount, readFailAt, cbFailAt, seqPos, seqRet, cbSeq,
                   parPc, parRet, cbPar, rd, prodDone,
                   statements, stClosed, results, resClosed, errors,
                   temp, schemaPtr, readErr, hist>>
    /\ UNCHANGED <<bpVars, genVars>>

(* worker: p.mysql.parseX(statement) stores into the schema p.mysql.schema  *)
(* points to at that moment                                                 *)
WorkerParse(w) ==
    /\ Started
    /\ wk[w].pc = "parse"
    /\ temp' = [temp EXCEPT ![schemaPtr] = DialectParse(@, wk[w].stmt, wk[w].kind)]
    /\ wk' = [wk EXCEPT ![w].pc = "check"]
    /\ UNCHANGED <<input, workerCount, readFailAt, cbFailAt, seqPos, seqRet, cbSeq,
                   parPc, parRet, cbPar, rd, prodDone,
                   statements, stClosed, results, resClosed, errors, schemaPtr,
                   readErr, hist>>
    /\ UNCHANGED <<bpVars, genVars>>

(* worker: if len(tempSchema.X) == 0 { return nil, "no X found" }; return &tempSchema.X[0] *)
WorkerCheck(w) ==
    /\ Started
    /\ wk[w].pc = "check"
    /\ LET found == temp[w][Collection(wk[w].kind)]
       IN IF Len(found) = 0
          THEN /\ wk' = [wk EXCEPT ![w].pc = "senderr", ![w].out = NotFound(wk[w].kind)]
               /\ hist' = [hist EXCEPT !.failed = @ \cup {w}]
          ELSE /\ wk' = [wk EXCEPT ![w].pc = "sendres",
                                   ![w].out = SchemaObject(wk[w].kind, found[1])]
               /\ UNCHANGED hist
    /\ UNCHANGED <<input, workerCount, readFailAt, cbFailAt, seqPos, seqRet, cbSeq,
                   parPc, parRet, cbPar, rd, prodDone,
                   statements, stClosed, results, resClosed, errors,
                   temp, schemaPtr, readErr>>
    /\ UNCHANGED <<bpVars, genVars>>

(* worker: results <- *obj (blocks while the channel is full) *)
WorkerSendResult(w) ==
    /\ Started
    /\ wk[w].pc = "sendres"
    /\ Len(results) < workerCount
    /\ results' = Append(results, wk[w].out)
    /\ hist' = [hist EXCEPT !.res[hist.cur[w]] = @ + 1]
    /\ wk' = [wk EXCEPT ![w] = PIdle]
    /\ UNCHANGED <<input, workerCount, readFailAt, cbFailAt, seqPos, seqRet, cbSeq,
                   parPc, parRet, cbPar, rd, prodDone,
                   statements, stClosed, resClosed, errors,
                   temp, schemaPtr, readErr>>
    /\ UNCHANGED <<bpVars, genVars>>

(* worker: errors <- err; return (blocks while the channel is full) *)
WorkerSendError(w) ==
    /\ Started
    /\ wk[w].pc = "senderr"
    /\ Len(errors) < workerCount
    /\ errors' = Append(errors, wk[w].out)
    /\ hist' = [hist EXCEPT !.err[hist.cur[w]] = @ + 1]
    /\ wk' = [wk EXCEPT ![w] = PWorker("exit", <<>>, NoKind, PNone)]
    /\ UNCHANGED <<input, workerCount, readFailAt, cbFailAt, seqPos, seqRet, cbSeq,
                   parPc, parRet, cbPar, rd, prodDone,
                   statements, stClosed, results, resClosed,
                   temp, schemaPtr, readErr>>
    /\ UNCHANGED <<bpVars, genVars>>

(* closer: wg.Wait(); close(results) *)
CloseResults ==
    /\ Started
    /\ ~resClosed
    /\ \A w \in PWorkers : wk[w].pc = "exit"
    /\ resClosed' = TRUE
    /\ UNCHANGED <<input, workerCount, readFailAt, cbFailAt, seqPos, seqRet, cbSeq,
                   parPc, parRet, cbPar, rd, prodDone,
                   statements, stClosed, results, errors,
                   wk, temp, schemaPtr, readErr, hist>>
    /\ UNCHANGED <<bpVars, genVars>>

(* callback(obj) returns an error *)
CallbackFails == cbFailAt = BagCardinality(cbPar) + 1

(* caller: for obj := range results { if err := callback(obj); err != nil { return err } } *)
Drain ==
    /\ parPc = "drain"
    /\ results # <<>>
    /\ results' = Tail(results)
    /\ cbPar' = cbPar (+) SetToBag({Head(results)})
    /\ IF CallbackFails
       THEN parPc' = "done" /\ parRet' = CallbackError
       ELSE UNCHANGED <<parPc, parRet>>
    /\ UNCHANGED <<input, workerCount, readFailAt, cbFailAt, seqPos, seqRet, cbSeq,
                   rd, prodDone,
                   statements, stClosed, resClosed, errors,
                   wk, temp, schemaPtr, readErr, hist>>
    /\ UNCHANGED <<bpVars, genVars>>

PendingError_Never == FALSE

(* case err := <-errors: an error is waiting on the channel *)
PendingError == errors # <<>>

(* caller: select { case err := <-errors: return err; default: return nil } *)
DrainEnd ==
    /\ parPc = "drain"
    /\ results = <<>>
    /\ resClosed
    /\ parPc' = "done"
    /\ IF PendingError
       THEN parRet' = Head(errors) /\ errors' = Tail(errors)
       ELSE parRet' = PNil /\ UNCHANGED errors
    /\ UNCHANGED <<input, workerCount, readFailAt, cbFailAt, seqPos, seqRet, cbSeq,
                   cbPar, rd, prodDone,
                   statements, stClosed, results, resClosed,
                   wk, temp, schemaPtr, readErr, hist>>
    /\ UNCHANGED <<bpVars, genVars>>

(* a step of ParseStream or of a thread of ParseStreamParallel *)
ParseNext ==
    \/ SeqEOF
    \/ SeqIter
    \/ ParStart
    \/ ProducerSkip
    \/ ProducerSend
    \/ ProducerReadFail
    \/ ProducerSendError
    \/ ProducerClose
    \/ CloseResults
    \/ Drain
    \/ DrainEnd
    \/ \E w \in PWorkers :
          \/ WorkerTake(w)
          \/ WorkerEnd(w)
          \/ WorkerParse(w)
          \/ WorkerCheck(w)
          \/ WorkerSendResult(w)
          \/ WorkerSendError(w)

(* ========================= stream parser properties ==================== *)
RECURSIVE BagOfSeq(_)
BagOfSeq(q) == IF q = <<>> THEN EmptyBag ELSE SetToBag({Head(q)}) (+) BagOfSeq(Tail(q))

(* what the specification asks of a statement: its recognized kind *)
Keyword(kind) ==
    CASE kind = "TableObject" -> "TABLE"
      [] kind = "ViewObject" -> "VIEW"
      [] kind = "FunctionObject" -> "FUNCTION"
      [] kind = "ProcedureObject" -> "PROCEDURE"
      [] kind = "TriggerObject" -> "TRIGGER"

Kinds == {"TableObject", "ViewObject", "FunctionObject", "ProcedureObject", "TriggerObject"}

Recognized(st, kind) ==
    LET t == TrimSpace(st)
    IN /\ Len(t) >= 2
       /\ t[1] \in {"CREATE", "create"}
       /\ t[2] \in {Keyword(kind), IF kind = "TableObject" THEN "table" ELSE Keyword(kind)}

WellFormed(st) == (\E k \in Kinds : Recognized(st, k)) => Len(TrimSpace(st)) >= 3
AllParse == \A k \in 1..Len(input) : WellFormed(input[k])

(* the objects a script must produce, in input order *)
RECURSIVE Expected(_)
Expected(q) ==
    IF q = <<>> THEN <<>>
    ELSE LET st == Head(q)
             ks == {k \in Kinds : Recognized(st, k)}
         IN IF ks = {} THEN Expected(Tail(q))
            ELSE LET k == CHOOSE x \in ks : TRUE
                     name == TrimSpace(st)[3]
                     data == IF k \in {"FunctionObject", "ProcedureObject"}
                             THEN [Name |-> name, IsProc |-> (k = "ProcedureObject")]
                             ELSE [Name |-> name]
                 IN <<SchemaObject(k, data)>> \o Expected(Tail(q))

(* C4: when both engines have returned on a script whose statements all     *)
(* parse (read without a read failure, with a callback that never fails),   *)
(* ParseStreamParallel has passed to the callback the same multiset of      *)
(* SchemaObjects as ParseStream.                                            *)
C4_ParallelEquivalence ==
    (seqRet # PNone /\ parPc = "done" /\ AllParse /\ readFailAt = 0 /\ cbFailAt = 0)
        => cbPar = BagOfSeq(cbSeq)

(* C5: on a script whose statements all parse, ParseStream returns nil      *)
(* having called the callback once per recognized statement, in input       *)
(* order, with the kind of the matched prefix; blank and unrecognized       *)
(* statements give no callback.                                             *)
C5_SequentialOrder ==
    (seqRet # PNone /\ AllParse) => (seqRet = PNil /\ cbSeq = Expected(input))

C5_Witness ==
    /\ seqRet = PNil
    /\ AllParse
    /\ Len(cbSeq) = 1
    /\ Len(input) = 2
    /\ StmtTrigger \in {input[1], input[2]}
    /\ \E k \in 1..2 : input[k] \in {StmtBlank, StmtSelect}

(* C12: whenever ParseStreamParallel has returned and some worker's parse   *)
(* of a statement failed, or the producer's read of the source failed, the  *)
(* value returned is a non-nil error.                                       *)
C12_ParseFailureSurfaces ==
    (parPc = "done" /\ (hist.failed # {} \/ readErr # "none")) => parRet # PNil

C12_Witness ==
    /\ parPc = "done"
    /\ workerCount = 2
    /\ cbFailAt = 0
    /\ readErr = "none"
    /\ hist.failed # {}
    /\ BagCardinality(cbPar) = 1
    /\ parRet = NotFound("TableObject")

(* a step of some thread of ParseStreamParallel is possible *)
CanStep == ENABLED ParseNext

(* C15: ParseStreamParallel always returns: as long as the caller has not   *)
(* returned, some thread of the operation can take a step (the operation    *)
(* never reaches a state in which the caller waits and every thread is      *)
(* blocked).                                                                *)
C15_AlwaysReturns == (Started /\ parPc # "done") => CanStep

(* the producer, the closer and every worker have terminated *)
AllThreadsDone ==
    /\ prodDone
    /\ resClosed
    /\ \A w \in PWorkers : wk[w].pc = "exit"

(* C16: no thread of ParseStreamParallel outlives the operation: once the   *)
(* caller has returned and no thread can take a further step, the producer, *)
(* the closer and all workers have terminated (none is left blocked on a    *)
(* send).                                                                   *)
C16_NoThreadOutlives == (parPc = "done" /\ ~CanStep) => AllThreadsDone

(* C18: each statement the producer read is received by at most one worker, *)
(* blank statements by none; a received statement gives at most one        *)
(* outcome, one SchemaObject on results or one error on errors, never both; *)
(* a worker whose parse failed takes nothing more, and a worker that did    *)
(* not fail exits only when statements is closed and empty.                 *)
C18_OneWorkerOneOutcome ==
    /\ \A k \in 1..Len(input) :
          /\ hist.recv[k] <= 1
          /\ hist.res[k] + hist.err[k] <= hist.recv[k]
          /\ TrimSpace(input[k]) = <<>> => hist.recv[k] = 0
    /\ Started =>
          \A w \in PWorkers :
              /\ w \in hist.failed => wk[w].pc \in {"senderr", "exit"}
              /\ wk[w].pc = "exit" =>
                    \/ w \in hist.failed
                    \/ stClosed /\ statements = <<>>

C18_Witness ==
    /\ workerCount = 2
    /\ Len(input) = 3
    /\ hist.recv = <<1, 1, 1>>
    /\ hist.err = <<1, 0, 0>>
    /\ hist.res = <<0, 1, 1>>
    /\ Cardinality(hist.failed) = 1
    /\ \A w \in PWorkers : wk[w].pc = "exit"

(* C19: a worker's outcome for a statement that parses when its helper runs *)
(* alone is the entity of that same statement: never a "no <kind> found"    *)
(* error and never the entity of a statement parsed by a sibling worker.    *)
C19_NoInterference ==
    Started =>
        \A w \in PWorkers :
            (/\ wk[w].pc \in {"sendres", "senderr"}
             /\ ParseAlone(wk[w].stmt, wk[w].kind).err = PNil)
                => wk[w].out = ParseAlone(wk[w].stmt, wk[w].kind).obj

(* ==================== MySQLStreamParser.GenerateStream ================= *)
MkTable(j, n) ==
    [Name |-> <<"t", j>>, Indexes |-> [k \in 1..n |-> [Name |-> <<"i", j, k>>]]]
MkView(j) == [Name |-> <<"v", j>>, Definition |-> "SELECT"]
MkFunction(j, isProc) ==
    [Name |-> <<"f", j>>, IsProc |-> isProc, Parameters |-> <<>>,
     Returns |-> "INT", Body |-> "BEGIN END"]
MkTrigger(j) ==
    [Name |-> <<"g", j>>, Timing |-> "BEFORE", Event |-> "INSERT",
     Table |-> <<"t", 1>>, Body |-> "BEGIN END"]

MkSchema(idxCounts, nViews, procFlags, nTriggers) ==
    [Tables |-> [j \in 1..Len(idxCounts) |-> MkTable(j, idxCounts[j])],
     Views |-> [j \in 1..nViews |-> MkView(j)],
     Functions |-> [j \in 1..Len(procFlags) |-> MkFunction(j, procFlags[j])],
     Triggers |-> [j \in 1..nTriggers |-> MkTrigger(j)]]

GNone == "none"
GNil == "nil"
WriteError == "write error"

GenInit(idxSeqs, viewCounts, procSeqs, triggerCounts, fails) ==
    /\ \E ic \in idxSeqs, nv \in viewCounts, fs \in procSeqs, nt \in triggerCounts :
          schema = MkSchema(ic, nv, fs, nt)
    /\ failAt \in fails
    /\ sink = <<>>
    /\ gPc = "tables"
    /\ gi = 1
    /\ gj = 1
    /\ gRet = GNone
    /\ writes = 0

(* p.mysql.generateTableSQL / generateIndexSQL: the dialect's rendering *)
generateTableSQL(table) == <<"CREATE TABLE", table.Name>>
generateIndexSQL(tableName, index) == <<"CREATE INDEX", index.Name, "ON", tableName>>

(* fmt.Sprintf("CREATE VIEW %s AS %s", view.Name, view.Definition) *)
ViewSQL(view) == <<"CREATE VIEW", view.Name, "AS", view.Definition>>
(* "CREATE FUNCTION %s(" params ") RETURNS %s\n%s" *)
FunctionSQL(function) ==
    <<"CREATE FUNCTION", function.Name, "(", function.Parameters, ") RETURNS",
      function.Returns, "\n", function.Body>>
(* "CREATE PROCEDURE %s(" params ")\n%s" *)
ProcedureSQL(function) ==
    <<"CREATE PROCEDURE", function.Name, "(", function.Parameters, ")", "\n",
      function.Body>>
(* "CREATE TRIGGER %s %s %s ON %s\n%s" *)
TriggerSQL(trigger) ==
    <<"CREATE TRIGGER", trigger.Name, trigger.Timing, trigger.Event, "ON",
      trigger.Table, "\n", trigger.Body>>

Bytes(sql, terminator) == [sql |-> sql, term |-> terminator]

(* the writer: its failAt-th Write call fails and stores nothing *)
WriteFails == failAt = writes + 1

Aborts_Never == FALSE

(* if err != nil { return err } *)
Aborts == WriteFails

(* _, err := writer.Write(b); if err != nil { return err } *)
Write(b) ==
    /\ writes' = writes + 1
    /\ IF WriteFails THEN UNCHANGED sink ELSE sink' = Append(sink, b)
    /\ IF Aborts
       THEN /\ gRet' = WriteError
            /\ gPc' = "done"
       ELSE UNCHANGED gRet

(* for _, table := range schema.Tables: write the table *)
GenTable ==
    /\ gPc = "tables"
    /\ gi <= Len(schema.Tables)
    /\ Write(Bytes(generateTableSQL(schema.Tables[gi]), ";\n\n"))
    /\ IF Aborts THEN UNCHANGED gj ELSE gPc' = "indexes" /\ gj' = 1
    /\ UNCHANGED <<schema, failAt, gi>>
    /\ UNCHANGED <<bpVars, parseVars>>

(* for _, index := range table.Indexes: write the index *)
GenIndex ==
    /\ gPc = "indexes"
    /\ gj <= Len(schema.Tables[gi].Indexes)
    /\ Write(Bytes(generateIndexSQL(schema.Tables[gi].Name, schema.Tables[gi].Indexes[gj]), ";\n"))
    /\ IF Aborts THEN UNCHANGED gj ELSE gj' = gj + 1 /\ UNCHANGED gPc
    /\ UNCHANGED <<schema, failAt, gi>>
    /\ UNCHANGED <<bpVars, parseVars>>

(* the index loop ends: next table *)
GenIndexesDone ==
    /\ gPc = "indexes"
    /\ gj > Len(schema.Tables[gi].Indexes)
    /\ gPc' = "tables"
    /\ gi' = gi + 1
    /\ UNCHANGED <<schema, failAt, sink, gj, gRet, writes>>
    /\ UNCHANGED <<bpVars, parseVars>>

(* the table loop ends *)
GenTablesDone ==
    /\ gPc = "tables"
    /\ gi > Len(schema.Tables)
    /\ gPc' = "views"
    /\ gi' = 1
    /\ UNCHANGED <<schema, failAt, sink, gj, gRet, writes>>
    /\ UNCHANGED <<bpVars, parseVars>>

(* for _, view := range schema.Views *)
GenView ==
    /\ gPc = "views"
    /\ gi <= Len(schema.Views)
    /\ Write(Bytes(ViewSQL(schema.Views[gi]), ";\n\n"))
    /\ IF Aborts THEN UNCHANGED gi ELSE gi' = gi + 1 /\ UNCHANGED gPc
    /\ UNCHANGED <<schema, failAt, gj>>
    /\ UNCHANGED <<bpVars, parseVars>>

GenViewsDone ==
    /\ gPc = "views"
    /\ gi > Len(schema.Views)
    /\ gPc' = "functions"
    /\ gi' = 1
    /\ UNCHANGED <<schema, failAt, sink, gj, gRet, writes>>
    /\ UNCHANGED <<bpVars, parseVars>>

EmitAsFunction_All(function) == TRUE

(* if !function.IsProc *)
EmitAsFunction(function) == ~function.IsProc

(* if function.IsProc *)
EmitAsProcedure(function) == function.IsProc

(* for _, function := range schema.Functions { if !function.IsProc {...} } *)
GenFunction ==
    /\ gPc = "functions"
    /\ gi <= Len(schema.Functions)
    /\ IF EmitAsFunction(schema.Functions[gi])
       THEN /\ Write(Bytes(FunctionSQL(schema.Functions[gi]), ";\n\n"))
            /\ IF Aborts THEN UNCHANGED gi ELSE gi' = gi + 1 /\ UNCHANGED gPc
       ELSE /\ gi' = gi + 1
            /\ UNCHANGED <<sink, gPc, gRet, writes>>
    /\ UNCHANGED <<schema, failAt, gj>>
    /\ UNCHANGED <<bpVars, parseVars>>

GenFunctionsDone ==
    /\ gPc = "functions"
    /\ gi > Len(schema.Functions)
    /\ gPc' = "procedures"
    /\ gi' = 1
    /\ UNCHANGED <<schema, failAt, sink, gj, gRet, writes>>
    /\ UNCHANGED <<bpVars, parseVars>>

(* for _, function := range schema.Functions { if function.IsProc {...} } *)
GenProcedure ==
    /\ gPc = "procedures"
    /\ gi <= Len(schema.Functions)
    /\ IF EmitAsProcedure(schema.Functions[gi])
       THEN /\ Write(Bytes(ProcedureSQL(schema.Functions[gi]), ";\n\n"))
            /\ IF Aborts THEN UNCHANGED gi ELSE gi' = gi + 1 /\ UNCHANGED gPc
       ELSE /\ gi' = gi + 1
            /\ UNCHANGED <<sink, gPc, gRet, writes>>
    /\ UNCHANGED <<schema, failAt, gj>>
    /\ UNCHANGED <<bpVars, parseVars>>

GenProceduresDone ==
    /\ gPc = "procedures"
    /\ gi > Len(schema.Functions)
    /\ gPc' = "triggers"
    /\ gi' = 1
    /\ UNCHANGED <<schema, failAt, sink, gj, gRet, writes>>
    /\ UNCHANGED <<bpVars, parseVars>>

(* for _, trigger := range schema.Triggers *)
GenTrigger ==
    /\ gPc = "triggers"
    /\ gi <= Len(schema.Triggers)
    /\ Write(Bytes(TriggerSQL(schema.Triggers[gi]), ";\n\n"))
    /\ IF Aborts THEN UNCHANGED gi ELSE gi' = gi + 1 /\ UNCHANGED gPc
    /\ UNCHANGED <<schema, failAt, gj>>
    /\ UNCHANGED <<bpVars, parseVars>>

(* return nil *)
GenReturn ==
    /\ gPc = "triggers"
    /\ gi > Len(schema.Triggers)
    /\ gPc' = "done"
    /\ gRet' = GNil
    /\ UNCHANGED <<schema, failAt, sink, gi, gj, writes>>
    /\ UNCHANGED <<bpVars, parseVars>>

(* ========================= GenerateStream properties =================== *)
RECURSIVE Flatten(_)
Flatten(qq) == IF qq = <<>> THEN <<>> ELSE Head(qq) \o Flatten(Tail(qq))

Filter(q, keep(_)) == SelectSeq(q, keep)
IsProcedure(f) == f.IsProc
IsPlainFunction(f) == ~f.IsProc

(* the emission order: each table followed by its indexes, the views, the  *)
(* functions, the procedures, the triggers                                  *)
EmissionOrder(sch) ==
    Flatten([j \in 1..Len(sch.Tables) |->
                <<Bytes(generateTableSQL(sch.Tables[j]), ";\n\n")>> \o
                [k \in 1..Len(sch.Tables[j].Indexes) |->
                    Bytes(generateIndexSQL(sch.Tables[j].Name, sch.Tables[j].Indexes[k]), ";\n")]])
    \o [j \in 1..Len(sch.Views) |-> Bytes(ViewSQL(sch.Views[j]), ";\n\n")]
    \o LET fs == Filter(sch.Functions, IsPlainFunction)
       IN [j \in 1..Len(fs) |-> Bytes(FunctionSQL(fs[j]), ";\n\n")]
    \o LET ps == Filter(sch.Functions, IsProcedure)
       IN [j \in 1..Len(ps) |-> Bytes(ProcedureSQL(ps[j]), ";\n\n")]
    \o [j \in 1..Len(sch.Triggers) |-> Bytes(TriggerSQL(sch.Triggers[j]), ";\n\n")]

WritesAllSucceed == failAt = 0 \/ failAt > Len(EmissionOrder(schema))

(* C10: with a sink whose writes all succeed GenerateStream returns nil and *)
(* has written, each once: every table followed at once by its indexes, in  *)
(* schema order, then the views, then the functions with IsProc false, then *)
(* those with IsProc true, then the triggers.                               *)
C10_EmissionOrder ==
    (gPc = "done" /\ WritesAllSucceed) =>
        (gRet = GNil /\ sink = EmissionOrder(schema))

C10_Witness ==
    /\ gPc = "done"
    /\ failAt = 0
    /\ Len(schema.Tables) = 2
    /\ Len(schema.Tables[1].Indexes) >= 1
    /\ Len(schema.Views) >= 1
    /\ Len(schema.Functions) = 2
    /\ schema.Functions[1].IsProc
    /\ ~schema.Functions[2].IsProc
    /\ Len(schema.Triggers) >= 1

FailingWrite == failAt \in 1..Len(EmissionOrder(schema))

(* C11: if the k-th write to the sink fails, GenerateStream makes no write  *)
(* after it, returns that write's error, and the sink holds exactly the     *)
(* k-1 earlier writes, in order.                                            *)
C11_FailFastOnWrite ==
    FailingWrite =>
        /\ writes <= failAt
        /\ Len(sink) <= failAt - 1
        /\ sink = SubSeq(EmissionOrder(schema), 1, Len(sink))
        /\ gPc = "done" =>
              /\ gRet = WriteError
              /\ writes = failAt
              /\ sink = SubSeq(EmissionOrder(schema), 1, failAt - 1)

C11_Witness ==
    /\ gPc = "done"
    /\ gRet = WriteError
    /\ failAt = 3
    /\ Len(sink) = 2
    /\ Len(EmissionOrder(schema)) >= 5

BatchNext ==
    \/ Stop
    \/ \E c \in Calls :
          \/ \E n \in 0..MaxItems : Begin(c, n)
          \/ DeadlineElapse(c)
          \/ EnqCtxDone(c)
          \/ EnqSend(c)
          \/ EnqErr(c)
          \/ EnqDone(c)
          \/ FinalSelect(c)
          \/ WorkerCtxDone(c)
          \/ WorkerRecv(c)
          \/ WorkerQueueClosed(c)
          \/ WorkerAcquire(c)
          \/ WorkerAcquireCtx(c)
          \/ HandlerReturnNil(c)
          \/ HandlerReturnErr(c)

GenNext ==
    \/ GenTable
    \/ GenIndex
    \/ GenIndexesDone
    \/ GenTablesDone
    \/ GenView
    \/ GenViewsDone
    \/ GenFunction
    \/ GenFunctionsDone
    \/ GenProcedure
    \/ GenProceduresDone
    \/ GenTrigger
    \/ GenReturn

(* an unused component stays in its constructed state *)
BatchIdle == BatchInit({1}, {1}, {FALSE})
ParseIdle == ParseInit({<<>>}, {1}, {0}, {0})
GenIdle == GenInit({<<>>}, {0}, {<<>>}, {0}, {0})

(* BatchProcessor: concurrent ProcessBatch calls and Stop on one processor *)
Init == BatchInit(1..MaxWorkers, 1..MaxBatch, {TRUE}) /\ ParseIdle /\ GenIdle
Next == BatchNext
Spec == Init /\ [][Next]_vars

(* ParseStream, then ParseStreamParallel, on the same script *)
InitParse ==
    /\ ParseInit(SeqsUpTo(Statements, MaxStmts), 1..MaxParWorkers,
                 0..(MaxStmts + 1), 0..MaxStmts)
    /\ BatchIdle
    /\ GenIdle
NextParse == ParseNext
SpecParse == InitParse /\ [][NextParse]_vars

(* ParseStreamParallel on longer scripts of fewer kinds of statement *)
InitPar ==
    /\ ParseInit(SeqsUpTo({StmtTable, StmtNoName, StmtBlank}, MaxParStmts),
                 1..MaxParWorkers, 0..(MaxParStmts + 1), 0..MaxParStmts)
    /\ BatchIdle
    /\ GenIdle
NextPar == ParseNext
SpecPar == InitPar /\ [][NextPar]_vars

(* ParseStream alone *)
InitSeq ==
    /\ ParseInit(SeqsUpTo(Statements, MaxStmts), 1..MaxParWorkers, {0}, {0})
    /\ BatchIdle
    /\ GenIdle
NextSeq == SeqEOF \/ SeqIter
SpecSeq == InitSeq /\ [][NextSeq]_vars

(* one ProcessBatch call at a time (a call begins only when none is in     *)
(* flight), with Stop at any moment                                        *)
BeginAlone(c, n) == (\A d \in Calls : ~Active(d)) /\ Begin(c, n)

NextSolo ==
    \/ Stop
    \/ \E c \in Calls :
          \/ \E n \in 0..MaxItems : BeginAlone(c, n)
          \/ DeadlineElapse(c)
          \/ EnqCtxDone(c)
          \/ EnqSend(c)
          \/ EnqErr(c)
          \/ EnqDone(c)
          \/ FinalSelect(c)
          \/ WorkerCtxDone(c)
          \/ WorkerRecv(c)
          \/ WorkerQueueClosed(c)
          \/ WorkerAcquire(c)
          \/ WorkerAcquireCtx(c)
          \/ HandlerReturnNil(c)
          \/ HandlerReturnErr(c)

InitSolo == BatchInit(1..MaxWorkers, 1..MaxBatch, BOOLEAN) /\ ParseIdle /\ GenIdle
SpecSolo == InitSolo /\ [][NextSolo]_vars

(* one ProcessBatch call at a time, with the setters called at any moment   *)
InitConfig == BatchInit(1..MaxWorkers, 1..MaxBatch, {FALSE}) /\ ParseIdle /\ GenIdle

NextConfig ==
    \/ \E d \in 1..MaxTimeout : SetTimeout(d)
    \/ \E size \in 1..(MaxBatch + 1) : SetBatchSize(size)
    \/ \E handler \in 1..MaxHandlers : SetErrorHandler(handler)
    \/ \E c \in Calls :
          \/ \E n \in 0..MaxItems : BeginAlone(c, n)
          \/ DeadlineElapse(c)
          \/ EnqCtxDone(c)
          \/ EnqSend(c)
          \/ EnqErr(c)
          \/ EnqDone(c)
          \/ FinalSelect(c)
          \/ WorkerCtxDone(c)
          \/ WorkerRecv(c)
          \/ WorkerQueueClosed(c)
          \/ WorkerAcquire(c)
          \/ WorkerAcquireCtx(c)
          \/ HandlerReturnNil(c)
          \/ HandlerReturnErr(c)

SpecConfig == InitConfig /\ [][NextConfig]_vars

(* GenerateStream on one schema and one writer *)
InitGen ==
    /\ GenInit(SeqsUpTo(0..MaxIdx, MaxTables), 0..MaxViews,
               SeqsUpTo(BOOLEAN, MaxFuncs), 0..MaxTriggers, 0..MaxFail)
    /\ BatchIdle
    /\ ParseIdle
NextGen == GenNext
SpecGen == InitGen /\ [][NextGen]_vars

====
